---- MODULE Spec2Model ----
(***************************************************************************)
(* Model of src/app.py: the interactions table (SQLite), the form insert,  *)
(* the LangGraph agent (decider node, conditional routing by               *)
(* decide_action, five tool nodes, END) and the list view.                 *)
(*                                                                         *)
(* One browser session runs the script top to bottom on every widget       *)
(* event: form insert (if submitted), agent.invoke (if "Send to AI" was    *)
(* pressed), list view.  An uncaught exception aborts the run.             *)
(*                                                                         *)
(* Text values are TLA+ strings; Chars gives the characters of a user      *)
(* message so that lower() and the substring tests are computed.  The      *)
(* emoji prefixes of the result strings are left out of the string         *)
(* literals.                                                               *)
(***************************************************************************)
EXTENDS Integers, Sequences, FiniteSets, TLC

VARIABLES
  rows,      \* the interactions table: a set of records, one per row
  seq,       \* sqlite_sequence: the largest id AUTOINCREMENT has handed out
  pc,        \* per session: where its script run stands
  form,      \* per session: the form values submitted in the current run
  state,     \* per session: the AgentState passed to agent.invoke
  ran,       \* per session: the graph nodes run by the current invoke, in order
  calls,     \* per session: the LLM calls of the current invoke, each with
             \* its prompt and the content answered (None if the call raised)
  page,      \* per session: what the run has rendered so far
  owner,     \* history: the session that inserted each id
  edited,    \* history: ids whose follow_up_actions an UPDATE has written
  reedited   \* history: ids whose follow_up_actions was written more than once

vars == <<rows, seq, pc, form, state, ran, calls, page, owner, edited, reedited>>

\* Largest number of rows the table is let to grow to.
MaxRows == 2

\* Python's None / SQL NULL.
None == "<None>"

Sessions == {"A", "B"}

-----------------------------------------------------------------------------
(* Inputs *)

\* What datetime.now().isoformat() may give when the log tool runs.
Timestamps == {"2024-05-03T09:15:00"}

\* What the user types into the form (lines 188-203).
FormInputs ==
  { [hcp_name |-> "Dr. Sharma", interaction_type |-> "Meeting",
     interaction_datetime |-> "2024-05-01T10:00:00",
     topics_discussed |-> "Product X", products_discussed |-> "Product X",
     sentiment |-> "Positive", follow_up_actions |-> "Send brochure"],
    [hcp_name |-> "", interaction_type |-> "Call",
     interaction_datetime |-> "2024-05-02T16:30:00",
     topics_discussed |-> "", products_discussed |-> "",
     sentiment |-> "Negative", follow_up_actions |-> ""] }

\* What the user types into the AI text box (line 238).
UserMessages ==
  { "EDIT summarize", "summarize edit", "Follow sentiment",
    "Sentiment summarize", "summarize", "log this", "ed it" }

\* The characters of each message.
Chars ==
  [ m \in UserMessages |->
      CASE m = "EDIT summarize" ->
             <<"E","D","I","T"," ","s","u","m","m","a","r","i","z","e">>
        [] m = "summarize edit" ->
             <<"s","u","m","m","a","r","i","z","e"," ","e","d","i","t">>
        [] m = "Follow sentiment" ->
             <<"F","o","l","l","o","w"," ","s","e","n","t","i","m","e","n","t">>
        [] m = "Sentiment summarize" ->
             <<"S","e","n","t","i","m","e","n","t"," ",
               "s","u","m","m","a","r","i","z","e">>
        [] m = "summarize" ->
             <<"s","u","m","m","a","r","i","z","e">>
        [] m = "log this" ->
             <<"l","o","g"," ","t","h","i","s">>
        [] m = "ed it" ->
             <<"e","d"," ","i","t">> ]

\* Texts the completion service may answer with.
Completions == {"Neutral", "Schedule a follow-up call"}

\* The inputs of the two-session specification.
SharedForms == { f \in FormInputs : f.hcp_name = "Dr. Sharma" }
SharedMessages == { "summarize edit", "log this" }

-----------------------------------------------------------------------------
(* str.lower() and the `in` substring test *)

LowerChar(ch) ==
  CASE ch = "A" -> "a" [] ch = "B" -> "b" [] ch = "C" -> "c" [] ch = "D" -> "d"
    [] ch = "E" -> "e" [] ch = "F" -> "f" [] ch = "G" -> "g" [] ch = "H" -> "h"
    [] ch = "I" -> "i" [] ch = "J" -> "j" [] ch = "K" -> "k" [] ch = "L" -> "l"
    [] ch = "M" -> "m" [] ch = "N" -> "n" [] ch = "O" -> "o" [] ch = "P" -> "p"
    [] ch = "Q" -> "q" [] ch = "R" -> "r" [] ch = "S" -> "s" [] ch = "T" -> "t"
    [] ch = "U" -> "u" [] ch = "V" -> "v" [] ch = "W" -> "w" [] ch = "X" -> "x"
    [] ch = "Y" -> "y" [] ch = "Z" -> "z" [] OTHER -> ch

Lower(s) == [ i \in 1..Len(s) |-> LowerChar(s[i]) ]

Contains(s, kw) ==
  \E i \in 1..(Len(s) - Len(kw) + 1) : SubSeq(s, i, i + Len(kw) - 1) = kw

KwEdit == <<"e","d","i","t">>
KwFollow == <<"f","o","l","l","o","w">>
KwSentiment == <<"s","e","n","t","i","m","e","n","t">>
KwSummarize == <<"s","u","m","m","a","r","i","z","e">>

-----------------------------------------------------------------------------
(* decide_action *)

\* decide_action without the call of lower().
DecideActionCaseSensitive(text) ==
  LET t == text IN
  IF Contains(t, KwEdit) THEN "edit"
  ELSE IF Contains(t, KwFollow) THEN "followup"
  ELSE IF Contains(t, KwSentiment) THEN "sentiment"
  ELSE IF Contains(t, KwSummarize) THEN "summarize"
  ELSE "log"

DecideAction(text) ==
  LET t == Lower(text) IN
  IF Contains(t, KwEdit) THEN "edit"
  ELSE IF Contains(t, KwFollow) THEN "followup"
  ELSE IF Contains(t, KwSentiment) THEN "sentiment"
  ELSE IF Contains(t, KwSummarize) THEN "summarize"
  ELSE "log"

\* The mapping given to add_conditional_edges.
RouteTable ==
  [ a \in {"log", "edit", "summarize", "sentiment", "followup"} |-> a ]

ToolNodes == {"log", "edit", "summarize", "sentiment", "followup"}

-----------------------------------------------------------------------------
(* The interactions table *)

Ids(rs) == { r.id : r \in rs }

\* SELECT MAX(id): NULL on an empty table.
MaxId(rs) ==
  IF rs = {} THEN None ELSE CHOOSE i \in Ids(rs) : \A j \in Ids(rs) : j <= i

\* id INTEGER PRIMARY KEY AUTOINCREMENT without the increment.
NextIdReuse(rs, sq) ==
  IF rs = {} THEN 1 ELSE MaxId(rs)

\* id INTEGER PRIMARY KEY AUTOINCREMENT: one more than the largest id ever used.
NextId(rs, sq) ==
  LET m == IF rs = {} THEN 0 ELSE MaxId(rs)
  IN  (IF sq > m THEN sq ELSE m) + 1

\* The log tool's row with ai_summary left out of the column list.
LogRowNoSummary(text, now) ==
  [ hcp_name |-> "Extracted via AI", interaction_type |-> "Meeting",
    interaction_datetime |-> now, topics_discussed |-> text,
    products_discussed |-> None, sentiment |-> None,
    follow_up_actions |-> None, ai_summary |-> None ]

\* The column values of the log tool's INSERT; unnamed columns are NULL.
LogRow(text, now) ==
  [ hcp_name |-> "Extracted via AI", interaction_type |-> "Meeting",
    interaction_datetime |-> now, topics_discussed |-> text,
    products_discussed |-> None, sentiment |-> None,
    follow_up_actions |-> None, ai_summary |-> text ]

\* The column values of the form's INSERT.
FormRow(f) ==
  [ hcp_name |-> f.hcp_name, interaction_type |-> f.interaction_type,
    interaction_datetime |-> f.interaction_datetime,
    topics_discussed |-> f.topics_discussed,
    products_discussed |-> f.products_discussed, sentiment |-> f.sentiment,
    follow_up_actions |-> f.follow_up_actions, ai_summary |-> None ]

InsertRow(rs, sq, fields) ==
  rs \cup { [id |-> NextId(rs, sq)] @@ fields }

\* The ids selected by WHERE id = (SELECT MAX(id) FROM interactions): none on
\* an empty table, where MAX(id) is NULL.
Matched(rs) == IF rs = {} THEN {} ELSE { MaxId(rs) }

\* The UPDATE without its WHERE clause.
UpdateLatestNoWhere(rs, text) ==
  { [r EXCEPT !.follow_up_actions = text] : r \in rs }

\* The UPDATE with MIN(id) in place of MAX(id).
UpdateLatestMinId(rs, text) ==
  { IF \A q \in rs : r.id <= q.id
      THEN [r EXCEPT !.follow_up_actions = text] ELSE r : r \in rs }

\* UPDATE interactions SET follow_up_actions = ?
\* WHERE id = (SELECT MAX(id) FROM interactions)
UpdateLatest(rs, text) ==
  { IF r.id \in Matched(rs)
      THEN [r EXCEPT !.follow_up_actions = text] ELSE r : r \in rs }

\* The five columns of the list view's SELECT.
Summary(r) ==
  [ id |-> r.id, hcp_name |-> r.hcp_name,
    interaction_type |-> r.interaction_type,
    interaction_datetime |-> r.interaction_datetime,
    sentiment |-> r.sentiment ]

RECURSIVE OrderByIdAsc(_)
OrderByIdAsc(rs) ==
  IF rs = {} THEN <<>>
  ELSE LET r == CHOOSE x \in rs : \A q \in rs : x.id <= q.id
       IN  <<Summary(r)>> \o OrderByIdAsc(rs \ {r})

RECURSIVE OrderByIdDesc(_)
OrderByIdDesc(rs) ==
  IF rs = {} THEN <<>>
  ELSE LET r == CHOOSE x \in rs : \A q \in rs : q.id <= x.id
       IN  <<Summary(r)>> \o OrderByIdDesc(rs \ {r})

\* The list view's SELECT in ascending order.
ListAllAsc(rs) == OrderByIdAsc(rs)

\* SELECT id, hcp_name, interaction_type, interaction_datetime, sentiment
\* FROM interactions ORDER BY id DESC
ListAll(rs) == OrderByIdDesc(rs)

-----------------------------------------------------------------------------
(* The tools' results *)

LoggedResult == "Interaction logged successfully using AI."
UpdatedResult == "Last interaction updated successfully."

SummarizePrompt(text) == <<"Summarize this HCP interaction professionally:", text>>
SentimentPrompt(text) == <<"Detect sentiment (Positive, Neutral, Negative):", text>>
FollowupPrompt(text) == <<"Suggest next follow-up action for sales rep:", text>>

\* A tool returning the message object, not its content.
LlmResultNoContent(content) == None

\* {"result": <message>.content}
LlmResult(content) == content

-----------------------------------------------------------------------------
(* The script run of one session *)

\* No form submitted in this run.
NoForm ==
  [ hcp_name |-> None, interaction_type |-> None,
    interaction_datetime |-> None, topics_discussed |-> None,
    products_discussed |-> None, sentiment |-> None,
    follow_up_actions |-> None ]

NoState == [ user_input |-> None, action |-> None, result |-> None ]

BlankPage ==
  [ form_saved |-> FALSE, response |-> None, error |-> FALSE, listed |-> <<>> ]

Init ==
  /\ rows = {}
  /\ seq = 0
  /\ owner = <<>>
  /\ edited = {}
  /\ reedited = {}
  /\ pc = [ c \in Sessions |-> "idle" ]
  /\ form = [ c \in Sessions |-> NoForm ]
  /\ state = [ c \in Sessions |-> NoState ]
  /\ ran = [ c \in Sessions |-> <<>> ]
  /\ calls = [ c \in Sessions |-> <<>> ]
  /\ page = [ c \in Sessions |-> BlankPage ]

\* Invokes that will insert a row and have not done so yet.
PendingLogs ==
  Cardinality({ c \in Sessions :
                  /\ pc[c] \in {"decider", "log"}
                  /\ DecideAction(Chars[state[c].user_input]) = "log" })

\* The table may take one more row.
Room == Cardinality(rows) + PendingLogs < MaxRows

\* An exception nobody catches: the traceback is shown and the run stops.
Abort(c) ==
  /\ page' = [page EXCEPT ![c].error = TRUE]
  /\ pc' = [pc EXCEPT ![c] = "idle"]

\* cursor.execute(INSERT ...); conn.commit() by session c.
Insert(c, fields) ==
  /\ rows' = InsertRow(rows, seq, fields)
  /\ seq' = NextId(rows, seq)
  /\ owner' = [ i \in DOMAIN owner \cup {NextId(rows, seq)} |->
                  IF i = NextId(rows, seq) THEN c ELSE owner[i] ]

\* A run with no button pressed: only the list view is rendered.
Rerun(c) ==
  /\ pc[c] = "idle"
  /\ pc' = [pc EXCEPT ![c] = "view"]
  /\ page' = [page EXCEPT ![c] = BlankPage]
  /\ form' = [form EXCEPT ![c] = NoForm]
  /\ state' = [state EXCEPT ![c] = NoState]
  /\ ran' = [ran EXCEPT ![c] = <<>>]
  /\ calls' = [calls EXCEPT ![c] = <<>>]
  /\ UNCHANGED <<rows, seq, owner, edited, reedited>>

\* "Save Interaction": if submit: INSERT, commit, st.success.
FormSubmit(c, forms) ==
  /\ pc[c] = "idle"
  /\ Room
  /\ state' = [state EXCEPT ![c] = NoState]
  /\ ran' = [ran EXCEPT ![c] = <<>>]
  /\ calls' = [calls EXCEPT ![c] = <<>>]
  /\ \E f \in forms, ok \in BOOLEAN :
       /\ form' = [form EXCEPT ![c] = f]
       /\ IF ok
            THEN /\ Insert(c, FormRow(f))
                 /\ page' = [page EXCEPT ![c] =
                               [BlankPage EXCEPT !.form_saved = TRUE]]
                 /\ pc' = [pc EXCEPT ![c] = "view"]
            ELSE /\ page' = [page EXCEPT ![c] =
                               [BlankPage EXCEPT !.error = TRUE]]
                 /\ pc' = pc
                 /\ UNCHANGED <<rows, seq, owner>>
  /\ UNCHANGED <<edited, reedited>>

\* "Send to AI": the initial AgentState is built and agent.invoke entered.
SendToAI(c, msgs) ==
  /\ pc[c] = "idle"
  /\ \E m \in msgs :
       /\ DecideAction(Chars[m]) = "log" => Room
       /\ state' = [state EXCEPT ![c] =
                      [ user_input |-> m, action |-> None, result |-> None ]]
  /\ pc' = [pc EXCEPT ![c] = "decider"]
  /\ form' = [form EXCEPT ![c] = NoForm]
  /\ page' = [page EXCEPT ![c] = BlankPage]
  /\ ran' = [ran EXCEPT ![c] = <<>>]
  /\ calls' = [calls EXCEPT ![c] = <<>>]
  /\ UNCHANGED <<rows, seq, owner, edited, reedited>>

\* The decider node (the identity on the state) and its conditional edge.
Decider(c) ==
  /\ pc[c] = "decider"
  /\ ran' = [ran EXCEPT ![c] = Append(@, "decider")]
  /\ pc' = [pc EXCEPT ![c] = RouteTable[DecideAction(Chars[state[c].user_input])]]
  /\ UNCHANGED <<rows, seq, owner, edited, reedited, form, state, calls, page>>

\* log_interaction_tool
LogTool(c, times) ==
  /\ pc[c] = "log"
  /\ ran' = [ran EXCEPT ![c] = Append(@, "log")]
  /\ \E now \in times, ok \in BOOLEAN :
       IF ok
         THEN /\ Insert(c, LogRow(state[c].user_input, now))
              /\ state' = [state EXCEPT ![c].result = LoggedResult]
              /\ pc' = [pc EXCEPT ![c] = "END"]
              /\ page' = page
         ELSE /\ Abort(c)
              /\ UNCHANGED <<rows, seq, owner, state>>
  /\ UNCHANGED <<edited, reedited, form, calls>>

\* edit_interaction_tool
EditTool(c) ==
  /\ pc[c] = "edit"
  /\ ran' = [ran EXCEPT ![c] = Append(@, "edit")]
  /\ \E ok \in BOOLEAN :
       IF ok
         THEN /\ rows' = UpdateLatest(rows, state[c].user_input)
              /\ edited' = edited \cup Matched(rows)
              /\ reedited' = reedited \cup (Matched(rows) \cap edited)
              /\ state' = [state EXCEPT ![c].result = UpdatedResult]
              /\ pc' = [pc EXCEPT ![c] = "END"]
              /\ page' = page
         ELSE /\ Abort(c)
              /\ UNCHANGED <<rows, edited, reedited, state>>
  /\ UNCHANGED <<seq, owner, form, calls>>

\* One llm.invoke(prompt) and the return of its content.
LlmTool(c, node, prompt, answers) ==
  /\ pc[c] = node
  /\ ran' = [ran EXCEPT ![c] = Append(@, node)]
  /\ \E content \in answers, ok \in BOOLEAN :
       IF ok
         THEN /\ calls' = [calls EXCEPT ![c] =
                            Append(@, [prompt |-> prompt, content |-> content])]
              /\ state' = [state EXCEPT ![c].result = LlmResult(content)]
              /\ pc' = [pc EXCEPT ![c] = "END"]
              /\ page' = page
         ELSE /\ calls' = [calls EXCEPT ![c] =
                            Append(@, [prompt |-> prompt, content |-> None])]
              /\ Abort(c)
              /\ state' = state
  /\ UNCHANGED <<rows, seq, owner, edited, reedited, form>>

\* summarize_tool
SummarizeTool(c, answers) ==
  LlmTool(c, "summarize", SummarizePrompt(state[c].user_input), answers)

\* sentiment_tool
SentimentTool(c, answers) ==
  LlmTool(c, "sentiment", SentimentPrompt(state[c].user_input), answers)

\* followup_tool
FollowupTool(c, answers) ==
  LlmTool(c, "followup", FollowupPrompt(state[c].user_input), answers)

\* agent.invoke returns; st.write(output["result"]).
End(c) ==
  /\ pc[c] = "END"
  /\ page' = [page EXCEPT ![c].response = state[c].result]
  /\ pc' = [pc EXCEPT ![c] = "view"]
  /\ UNCHANGED <<rows, seq, owner, edited, reedited, form, state, ran, calls>>

\* The list view at the end of the script.
ListView(c) ==
  /\ pc[c] = "view"
  /\ page' = [page EXCEPT ![c].listed = ListAll(rows)]
  /\ pc' = [pc EXCEPT ![c] = "idle"]
  /\ UNCHANGED <<rows, seq, owner, edited, reedited, form, state, ran, calls>>

Step(c, forms, msgs, times, answers) ==
  \/ Rerun(c)
  \/ FormSubmit(c, forms)
  \/ SendToAI(c, msgs)
  \/ Decider(c)
  \/ LogTool(c, times)
  \/ EditTool(c)
  \/ SummarizeTool(c, answers)
  \/ SentimentTool(c, answers)
  \/ FollowupTool(c, answers)
  \/ End(c)
  \/ ListView(c)

\* One session, as the page is used: a run ends before the next begins.
Next == Step("A", FormInputs, UserMessages, Timestamps, Completions)

Spec == Init /\ [][Next]_vars

\* The steps of a run that reach the table.
StoreStep(c, forms, msgs, times) ==
  \/ FormSubmit(c, forms)
  \/ SendToAI(c, msgs)
  \/ Decider(c)
  \/ LogTool(c, times)
  \/ EditTool(c)
  \/ End(c)
  \/ ListView(c)

\* Two sessions whose runs interleave statement by statement.
NextShared ==
  \E c \in Sessions :
    StoreStep(c, SharedForms, SharedMessages, Timestamps)

SpecShared == Init /\ [][NextShared]_vars

-----------------------------------------------------------------------------
(* Vocabulary of the properties *)

\* The stored row with id i.
RowOf(rs, i) == CHOOSE r \in rs : r.id = i

\* The stored row with the largest id.
TopRow(rs) == CHOOSE r \in rs : \A q \in rs : q.id <= r.id

\* Session c's edit tool runs to its return in this step.
EditStep(c) == pc[c] = "edit" /\ pc'[c] = "END"

\* Session c's log tool runs to its return in this step.
LogStep(c) == pc[c] = "log" /\ pc'[c] = "END"

\* Session c's form insert is committed in this step.
FormStep(c) == pc[c] = "idle" /\ pc'[c] = "view" /\ page'[c].form_saved

LlmNodes == {"summarize", "sentiment", "followup"}

\* The lowercased text of session c's message holds keyword kw.
Has(c, kw) == Contains(Lower(Chars[state[c].user_input]), kw)

\* Action a is the one the priority list gives for session c's message.
Selected(c, a) ==
  /\ (a = "edit") <=> Has(c, KwEdit)
  /\ (a = "followup") <=> (~Has(c, KwEdit) /\ Has(c, KwFollow))
  /\ (a = "sentiment") <=>
       (~Has(c, KwEdit) /\ ~Has(c, KwFollow) /\ Has(c, KwSentiment))
  /\ (a = "summarize") <=>
       (~Has(c, KwEdit) /\ ~Has(c, KwFollow) /\ ~Has(c, KwSentiment)
          /\ Has(c, KwSummarize))
  /\ (a = "log") <=>
       (~Has(c, KwEdit) /\ ~Has(c, KwFollow) /\ ~Has(c, KwSentiment)
          /\ ~Has(c, KwSummarize))

-----------------------------------------------------------------------------
(* C1 *)

\* C1: every dispatch runs the decider and then exactly one tool node, the one
\* the priority list edit > follow > sentiment > summarize > log selects for the
\* lowercased text; no other tool runs before the dispatch ends.
C1_FirstMatchDispatch ==
  \A c \in Sessions :
    /\ pc[c] = "decider" => ran[c] = <<>>
    /\ pc[c] \in ToolNodes => ran[c] = <<"decider">> /\ Selected(c, pc[c])
    /\ (pc[c] \in {"END", "view", "idle"} /\ ran[c] # <<>>) =>
         /\ Len(ran[c]) = 2
         /\ ran[c][1] = "decider"
         /\ ran[c][2] \in ToolNodes
         /\ Selected(c, ran[c][2])

\* A message holding "EDIT" in capitals and "summarize" has run the edit tool
\* alone and its dispatch has ended.
C1_Witness ==
  /\ pc["A"] = "view"
  /\ state["A"].user_input = "EDIT summarize"
  /\ ran["A"] = <<"decider", "edit">>
  /\ page["A"].response = UpdatedResult

-----------------------------------------------------------------------------
(* C2 *)

\* C2: on a table with at least one row the edit tool sets follow_up_actions
\* of the row with the largest id to the raw user input; that row's other
\* fields, every other row and the set of ids stay as they were.
C2_EditFrame ==
  [][ \A c \in Sessions :
        (EditStep(c) /\ rows # {}) =>
          /\ rows' = (rows \ {TopRow(rows)}) \cup
                       { [TopRow(rows) EXCEPT
                            !.follow_up_actions = state[c].user_input] }
          /\ Ids(rows') = Ids(rows)
          /\ Cardinality(rows') = Cardinality(rows) ]_vars

\* An older row made by the form and a newer row made by the log tool have
\* each been edited while they were the newest, and differ in follow-up text.
C2_Witness ==
  \E r1, r2 \in rows :
    /\ r1.id < r2.id
    /\ r1.ai_summary = None /\ r1.id \in edited
    /\ r1.hcp_name = "Dr. Sharma" /\ r1.follow_up_actions = "EDIT summarize"
    /\ r2.ai_summary # None /\ r2.id \in edited
    /\ r2.follow_up_actions = "summarize edit"

-----------------------------------------------------------------------------
(* C3 *)

\* C3: an edit dispatched on an empty table ends with a failure result, not
\* with the success message, and the table stays empty.
C3_EditOnEmptyFails ==
  \A c \in Sessions :
    (pc[c] = "END" /\ ran[c] = <<"decider", "edit">> /\ rows = {} /\ seq = 0)
      => state[c].result # UpdatedResult

-----------------------------------------------------------------------------
(* C4 *)

\* Session c inserts a row in this step.
InsertStep(c) == LogStep(c) \/ FormStep(c)

\* The list holds every stored row once, newest first.
C4_ListInv ==
  LET l == ListAll(rows) IN
  /\ Len(l) = Cardinality(rows)
  /\ { l[i].id : i \in DOMAIN l } = Ids(rows)
  /\ \A i \in DOMAIN l : i > 1 => l[i].id < l[i - 1].id
  /\ \A i \in DOMAIN l :
       LET r == RowOf(rows, l[i].id) IN
       /\ l[i].hcp_name = r.hcp_name
       /\ l[i].interaction_type = r.interaction_type
       /\ l[i].interaction_datetime = r.interaction_datetime
       /\ l[i].sentiment = r.sentiment

\* Right after an insert the head of the list has a new id and the inserted
\* values of the list's columns.
C4_InsertFirst ==
  \A c \in Sessions :
    InsertStep(c) =>
      LET first == ListAll(rows')[1] IN
      /\ first.id \notin Ids(rows)
      /\ FormStep(c) =>
           /\ first.hcp_name = form'[c].hcp_name
           /\ first.interaction_type = form'[c].interaction_type
           /\ first.interaction_datetime = form'[c].interaction_datetime
           /\ first.sentiment = form'[c].sentiment
      /\ LogStep(c) =>
           /\ first.hcp_name = "Extracted via AI"
           /\ first.interaction_type = "Meeting"
           /\ first.interaction_datetime \in Timestamps
           /\ first.sentiment = None

\* The list a one-session run renders after its form insert starts with the
\* submitted values.
C4_RenderedFirst ==
  \A c \in Sessions :
    (pc[c] = "idle" /\ page[c].form_saved) =>
      /\ page[c].listed = ListAll(rows)
      /\ page[c].listed[1].hcp_name = form[c].hcp_name
      /\ page[c].listed[1].interaction_type = form[c].interaction_type
      /\ page[c].listed[1].interaction_datetime = form[c].interaction_datetime
      /\ page[c].listed[1].sentiment = form[c].sentiment

\* C4 as stated: list_all returns every row once in strictly descending id
\* order and, right after an insert, its first element is the inserted record
\* itself, with every field value supplied.
C4_FirstIsFullRecord ==
  [][ \A c \in Sessions :
        InsertStep(c) =>
          /\ Cardinality(rows' \ rows) = 1
          /\ ListAll(rows')[1] \in (rows' \ rows) ]_vars

\* C4 as amended: list_all returns one summary per stored row (id, hcp_name,
\* interaction_type, interaction_datetime, sentiment) in strictly descending
\* id order, and right after an insert its first element carries a new id and
\* the inserted values of those five columns.
C4_ListNewestFirst ==
  /\ [](C4_ListInv /\ C4_RenderedFirst)
  /\ [][C4_InsertFirst]_vars

\* Two rows are stored and the run that saved the second through the form has
\* rendered it at the head of its list.
C4_Witness ==
  /\ Cardinality(rows) = 2
  /\ pc["A"] = "idle"
  /\ page["A"].form_saved
  /\ Len(page["A"].listed) = 2
  /\ page["A"].listed[1].id = 2
  /\ page["A"].listed[1].hcp_name = "Dr. Sharma"
  /\ page["A"].listed[1].sentiment = "Positive"
  /\ page["A"].listed[2].id = 1

-----------------------------------------------------------------------------
(* C5 *)

\* Session c's message holds none of the four keywords.
NoKeyword(c) ==
  /\ ~Has(c, KwEdit)
  /\ ~Has(c, KwFollow)
  /\ ~Has(c, KwSentiment)
  /\ ~Has(c, KwSummarize)

\* C5: a dispatch of a text with none of the keywords is routed to the log
\* tool, which inserts exactly one row: placeholder hcp_name, type 'Meeting',
\* topics_discussed and ai_summary both the raw input, products_discussed,
\* sentiment and follow_up_actions NULL; the rows already stored are unchanged
\* and no other step of the dispatch writes the table.
C5_LogInsertsOneRow ==
  [][ \A c \in Sessions :
        (state[c].user_input \in UserMessages /\ NoKeyword(c)) =>
          /\ (pc[c] = "decider" /\ pc'[c] # "decider") =>
               pc'[c] = "log" /\ rows' = rows
          /\ (pc[c] = "END" /\ pc'[c] # "END") => rows' = rows
          /\ (pc[c] = "log" /\ pc'[c] = "END") =>
               /\ rows \subseteq rows'
               /\ Cardinality(rows' \ rows) = 1
               /\ \A r \in rows' \ rows :
                    /\ r.id \notin Ids(rows)
                    /\ r.hcp_name = "Extracted via AI"
                    /\ r.interaction_type = "Meeting"
                    /\ r.topics_discussed = state[c].user_input
                    /\ r.ai_summary = state[c].user_input
                    /\ r.products_discussed = None
                    /\ r.sentiment = None
                    /\ r.follow_up_actions = None ]_vars

\* The dispatch of "ed it" (the keyword split by a space) has ended after the
\* log tool, and the newest row holds the text in both columns.
C5_Witness ==
  /\ pc["A"] = "view"
  /\ state["A"].user_input = "ed it"
  /\ ran["A"] = <<"decider", "log">>
  /\ page["A"].response = LoggedResult
  /\ Cardinality(rows) = 2
  /\ TopRow(rows).topics_discussed = "ed it"
  /\ TopRow(rows).ai_summary = "ed it"

-----------------------------------------------------------------------------
(* C6 *)

\* C6: a dispatch routed to summarize, sentiment or followup calls the
\* completion service exactly once with the raw input in the prompt, returns
\* the content answered as its result, unmodified, and none of its steps
\* writes the table.
C6_LlmToolsReadOnly ==
  [][ \A c \in Sessions :
        /\ (pc[c] = "decider" /\ pc'[c] \in LlmNodes) =>
             rows' = rows /\ seq' = seq /\ calls'[c] = <<>>
        /\ (pc[c] \in LlmNodes /\ pc'[c] # pc[c]) =>
             /\ rows' = rows /\ seq' = seq
             /\ calls[c] = <<>>
             /\ Len(calls'[c]) = 1
             /\ calls'[c][1].prompt[2] = state[c].user_input
             /\ pc'[c] = "END" =>
                  /\ calls'[c][1].content \in Completions
                  /\ state'[c].result = calls'[c][1].content
        /\ (pc[c] = "END" /\ ran[c][2] \in LlmNodes /\ pc'[c] # "END") =>
             /\ rows' = rows /\ seq' = seq
             /\ Len(calls[c]) = 1
             /\ page'[c].response = calls[c][1].content ]_vars

\* The summarize dispatch has ended on a table with stored rows: one call
\* was made and the page shows the content it answered.
C6_Witness ==
  /\ pc["A"] = "view"
  /\ state["A"].user_input = "summarize"
  /\ ran["A"] = <<"decider", "summarize">>
  /\ Len(calls["A"]) = 1
  /\ calls["A"][1].content = "Schedule a follow-up call"
  /\ page["A"].response = "Schedule a follow-up call"
  /\ rows # {}

-----------------------------------------------------------------------------
(* C7 *)

\* C7: a dispatch during which the store or the completion service fails
\* still ends with a result: a string describing the error, shown to the
\* user.
C7_FailureGivesResult ==
  \A c \in Sessions :
    (page[c].error /\ ran[c] # <<>>) =>
      /\ state[c].result # None
      /\ page[c].response = state[c].result

-----------------------------------------------------------------------------
(* C8 *)

C8_DistinctIds == Cardinality(Ids(rows)) = Cardinality(rows)

C8_Step ==
  /\ Ids(rows) \subseteq Ids(rows')
  /\ Cardinality(rows') >= Cardinality(rows)
  /\ \A c \in Sessions :
       InsertStep(c) =>
         /\ Cardinality(rows') = Cardinality(rows) + 1
         /\ \E i \in Ids(rows') :
              /\ Ids(rows') = Ids(rows) \cup {i}
              /\ i > seq
              /\ \A j \in Ids(rows) : j < i

\* C8: stored ids are pairwise distinct; every insert, by the form or by the
\* log tool, adds exactly one row whose id is larger than every id handed
\* out before; no step removes a row.
C8_IdsUniqueIncreasing ==
  /\ []C8_DistinctIds
  /\ [][C8_Step]_vars

\* A form row and a log row are stored with ids 1 and 2.
C8_Witness ==
  /\ Ids(rows) = {1, 2}
  /\ RowOf(rows, 1).ai_summary = None
  /\ RowOf(rows, 2).ai_summary = "log this"
  /\ seq = 2

-----------------------------------------------------------------------------
(* C9 *)

\* Row q is row r with at most follow_up_actions changed.
SameButFollowUp(r, q) ==
  /\ q.id = r.id
  /\ [q EXCEPT !.follow_up_actions = r.follow_up_actions] = r

\* C9 as stated: a record is mutated at most once after its creation: once an
\* edit has written its follow_up_actions a later edit does not change it
\* again, and no other field of it ever changes.
C9_MutatedAtMostOnce ==
  [][ \A r \in rows :
        \E q \in rows' :
          /\ SameButFollowUp(r, q)
          /\ r.id \in edited => q = r ]_vars

\* C9 as amended: a record is never deleted and only its follow_up_actions
\* ever changes, only by the edit tool, only to that dispatch's raw input and
\* only while the record has the largest id; the edit tool may overwrite it
\* any number of times.
C9_OnlyNewestFollowUpChanges ==
  [][ \A r \in rows :
        \E q \in rows' :
          /\ SameButFollowUp(r, q)
          /\ q # r =>
               /\ r = TopRow(rows)
               /\ \E c \in Sessions :
                    /\ EditStep(c)
                    /\ q.follow_up_actions = state[c].user_input ]_vars

\* A row has been overwritten by two edits and holds the second one's text
\* while an older row keeps the text of the one edit it got.
C9_Witness ==
  \E r1, r2 \in rows :
    /\ r1.id < r2.id
    /\ r1.id \in edited /\ r1.id \notin reedited
    /\ r2.id \in reedited
    /\ r2.follow_up_actions = "summarize edit"
    /\ pc["A"] = "END" /\ ran["A"] = <<"decider", "edit">>

-----------------------------------------------------------------------------
(* C10 *)

\* C10: with two sessions on the one table, an edit updates the row that has
\* the largest id at the moment of the UPDATE and no other row; when that row
\* was inserted by the other session the editing session's own rows are left
\* as they were.
C10_EditHitsGlobalNewest ==
  [][ \A c \in Sessions :
        (EditStep(c) /\ rows # {}) =>
          LET top == TopRow(rows) IN
          /\ [top EXCEPT !.follow_up_actions = state[c].user_input] \in rows'
          /\ \A r \in rows \ {top} : r \in rows'
          /\ Ids(rows') = Ids(rows)
          /\ owner[top.id] # c =>
               \A r \in rows : owner[r.id] = c => r \in rows' ]_vars

\* Session A inserted row 1, session B then inserted row 2, and A's edit,
\* the only one so far, has overwritten B's row and left A's row alone.
C10_Witness ==
  /\ Ids(rows) = {1, 2}
  /\ owner[1] = "A" /\ owner[2] = "B"
  /\ pc["A"] = "END" /\ ran["A"] = <<"decider", "edit">>
  /\ ran["B"] # <<"decider", "edit">>
  /\ edited = {2} /\ reedited = {}
  /\ RowOf(rows, 2).follow_up_actions = state["A"].user_input
  /\ RowOf(rows, 1).follow_up_actions # state["A"].user_input

=============================================================================
